---- MODULE Spec2Model ----
(***************************************************************************)
(* The indentation-aware Lexer of src/main.js (lines 1-211): the scanner   *)
(* (position, currentChar, advance, peek), the tokenize() dispatch loop,   *)
(* its sub-recognizers, and the indentation stack.                         *)
(*                                                                         *)
(* Encoding of JavaScript values:                                          *)
(*   - a character is a one-character TLA+ string; a JS string is a        *)
(*     sequence of characters;                                             *)
(*   - the JS values null and undefined, as values of currentChar, are the *)
(*     strings "null" and "undefined" (no character is longer than one);   *)
(*   - a token is a record [type, value]; the JS value null pushed into    *)
(*     the token array is the record NullToken;                            *)
(*   - a JS number that is an indentation level (numSpaces / 4) is an      *)
(*     exact fraction in lowest terms [num, den].                          *)
(***************************************************************************)
EXTENDS Integers, Sequences, FiniteSets, TLC

VARIABLES input, position, currentChar, indentStack, tokens, outcome, previous

vars == <<input, position, currentChar, indentStack, tokens, outcome, previous>>

(***************************************************************************)
(* Bounds of the checked input families.                                   *)
(***************************************************************************)
MaxLen == 2
MaxStringLen == 4
MaxCommentLen == 6
MaxOperatorLen == 4
MaxKeywordLen == 3
MaxLines == 3
MaxSpaces == 5
MaxLevel == 2
MaxPastEnd == 2

(***************************************************************************)
(* JavaScript values.                                                      *)
(***************************************************************************)
null == "null"

undefined == "undefined"

NullToken == [type |-> "null", value |-> <<>>]

Digits == <<"0", "1", "2", "3", "4", "5", "6", "7", "8", "9">>

Letters ==
    {"a", "b", "c", "d", "e", "f", "g", "h", "i", "j", "k", "l", "m",
     "n", "o", "p", "q", "r", "s", "t", "u", "v", "w", "x", "y", "z",
     "A", "B", "C", "D", "E", "F", "G", "H", "I", "J", "K", "L", "M",
     "N", "O", "P", "Q", "R", "S", "T", "U", "V", "W", "X", "Y", "Z"}

IsDigitChar(c) == \E i \in 1..Len(Digits) : Digits[i] = c

\* String(c): the string a value is coerced to by `+=` and by RegExp.test.
StringOf(c) ==
    IF c = undefined THEN <<"u", "n", "d", "e", "f", "i", "n", "e", "d">>
    ELSE IF c = null THEN <<"n", "u", "l", "l">>
    ELSE <<c>>

\* /\d/.test(c): some character of String(c) is a digit.
TestDigit(c) == \E i \in 1..Len(StringOf(c)) : IsDigitChar(StringOf(c)[i])

\* /[a-zA-Z]/.test(c): some character of String(c) is a letter.
TestLetter(c) == \E i \in 1..Len(StringOf(c)) : StringOf(c)[i] \in Letters

\* /[a-zA-Z0-9]/.test(c)
TestAlnum(c) ==
    \E i \in 1..Len(StringOf(c)) :
        StringOf(c)[i] \in Letters \/ IsDigitChar(StringOf(c)[i])

RECURSIVE GCD(_, _)
GCD(a, b) == IF b = 0 THEN a ELSE GCD(b, a % b)

\* The number n / d (d > 0), as a fraction in lowest terms.
Divide(n, d) == LET g == GCD(n, d) IN [num |-> n \div g, den |-> d \div g]

Number(k) == [num |-> k, den |-> 1]

NumLess(a, b) == a.num * b.den < b.num * a.den

DigitValue(c) == (CHOOSE i \in 1..Len(Digits) : Digits[i] = c) - 1

RECURSIVE parseIntFrom(_, _)
parseIntFrom(str, acc) ==
    IF str = <<>> THEN acc
    ELSE parseIntFrom(Tail(str), acc * 10 + DigitValue(Head(str)))

\* parseInt of a non-empty run of decimal digits.
parseInt(str) == parseIntFrom(str, 0)

Token(type, value) == [type |-> type, value |-> value]

(***************************************************************************)
(* Scanner: a cursor s = [position, currentChar] over `input`.             *)
(***************************************************************************)
Cursor(p, c) == [position |-> p, currentChar |-> c]

\* The position stops at the end of the input.
advanceClamped(s) ==
    LET p == IF s.position < Len(input) THEN s.position + 1 ELSE s.position
    IN  Cursor(p, IF p < Len(input) THEN input[p + 1] ELSE null)

advance(s) ==
    LET p == s.position + 1
    IN  Cursor(p, IF p < Len(input) THEN input[p + 1] ELSE null)

peek(s) ==
    LET nextPosition == s.position + 1
    IN  IF nextPosition < Len(input) THEN input[nextPosition + 1] ELSE null

\* new Lexer(inp): input[0] of the empty string is undefined.
Lexer(inp) ==
    [position |-> 0,
     currentChar |-> IF Len(inp) > 0 THEN inp[1] ELSE undefined,
     indentStack |-> <<Number(0)>>]

\* A token array that outlives the call: what is left of the last run.
StaleTokens == tokens

\* `let tokens = []` of tokenize().
FreshTokens == <<>>

(***************************************************************************)
(* Results of tokenize(): still running, returned a sequence, or threw.    *)
(***************************************************************************)
Constructed == [status |-> "constructed", tokens |-> <<>>, position |-> 0, msg |-> ""]

Running == [status |-> "running", tokens |-> <<>>, position |-> 0, msg |-> ""]

Returned(toks) == [status |-> "returned", tokens |-> toks, position |-> 0, msg |-> ""]

\* error(msg): "Lexer error at position " + position + ": " + msg
error(p, msg) == [status |-> "thrown", tokens |-> <<>>, position |-> p, msg |-> msg]

UnterminatedComment == "Unterminated comment"

UnterminatedString == "Unterminated string literal"

(***************************************************************************)
(* Sub-recognizers.  Each starts at cursor s and yields the cursor it      *)
(* leaves and the token it returns (or the error it throws).               *)
(***************************************************************************)
RECURSIVE getSingleLineCommentLoop(_, _)
getSingleLineCommentLoop(s, comment) ==
    IF s.currentChar # "\n" /\ s.currentChar # null
    THEN getSingleLineCommentLoop(advance(s), comment \o StringOf(s.currentChar))
    ELSE [s |-> s, text |-> comment]

\* The comment text is read and the newline that ends it is consumed too.
getSingleLineCommentAndNewline(s) ==
    LET r == getSingleLineCommentLoop(advance(advance(s)), <<>>)
        after == IF r.s.currentChar = "\n" THEN advance(r.s) ELSE r.s
    IN  [s |-> after, ok |-> TRUE, token |-> Token("COMMENT", r.text), msg |-> ""]

getSingleLineComment(s) ==
    LET r == getSingleLineCommentLoop(advance(advance(s)), <<>>)
    IN  [s |-> r.s, ok |-> TRUE, token |-> Token("COMMENT", r.text), msg |-> ""]

\* The lookahead is not consulted.
AtCommentEndNoPeek(s) == s.currentChar = "*"

\* The loop condition and the test after the loop of getMultiLineComment.
AtCommentEnd(s) == s.currentChar = "*" /\ peek(s) = "/"

RECURSIVE getMultiLineCommentLoop(_, _)
getMultiLineCommentLoop(s, comment) ==
    IF s.currentChar # null /\ ~AtCommentEnd(s)
    THEN getMultiLineCommentLoop(advance(s), comment \o StringOf(s.currentChar))
    ELSE [s |-> s, text |-> comment]

getMultiLineComment(s) ==
    LET r == getMultiLineCommentLoop(advance(advance(s)), <<>>)
    IN  IF AtCommentEnd(r.s)
        THEN [s |-> advance(advance(r.s)), ok |-> TRUE,
              token |-> Token("COMMENT", r.text), msg |-> ""]
        ELSE [s |-> r.s, ok |-> FALSE, token |-> NullToken,
              msg |-> UnterminatedComment]

\* Either quote closes the string.
ClosesStringAnyQuote(c, delimiter) == c = "\"" \/ c = "'"

\* A newline closes the string as well.
ClosesStringOrNewline(c, delimiter) == c = delimiter \/ c = "\n"

\* The loop condition of getString: the character closes the string.
ClosesString(c, delimiter) == c = delimiter

RECURSIVE getStringLoop(_, _, _)
getStringLoop(s, delimiter, result) ==
    IF s.currentChar # null /\ ~ClosesString(s.currentChar, delimiter)
    THEN getStringLoop(advance(s), delimiter, result \o StringOf(s.currentChar))
    ELSE [s |-> s, text |-> result]

getString(s) ==
    LET delimiter == s.currentChar
        r == getStringLoop(advance(s), delimiter, <<>>)
    IN  IF r.s.currentChar = delimiter
        THEN [s |-> advance(r.s), ok |-> TRUE,
              token |-> Token("STRING", r.text), msg |-> ""]
        ELSE [s |-> r.s, ok |-> FALSE, token |-> NullToken,
              msg |-> UnterminatedString]

RECURSIVE getIntegerLoop(_, _)
getIntegerLoop(s, result) ==
    IF s.currentChar # null /\ TestDigit(s.currentChar)
    THEN getIntegerLoop(advance(s), result \o StringOf(s.currentChar))
    ELSE [s |-> s, text |-> result]

getInteger(s) ==
    LET r == getIntegerLoop(s, <<>>)
    IN  [s |-> r.s, ok |-> TRUE, token |-> Token("INTEGER", parseInt(r.text)),
         msg |-> ""]

\* The shorter list of reserved words, without if, else, then and return.
KeywordsShort ==
    {<<"f", "u", "n", "c", "t", "i", "o", "n">>,
     <<"w", "h", "i", "l", "e">>,
     <<"b", "r", "e", "a", "k">>,
     <<"c", "o", "n", "t", "i", "n", "u", "e">>}

Keywords ==
    {<<"f", "u", "n", "c", "t", "i", "o", "n">>,
     <<"i", "f">>,
     <<"e", "l", "s", "e">>,
     <<"t", "h", "e", "n">>,
     <<"w", "h", "i", "l", "e">>,
     <<"b", "r", "e", "a", "k">>,
     <<"c", "o", "n", "t", "i", "n", "u", "e">>,
     <<"r", "e", "t", "u", "r", "n">>}

RECURSIVE getIdentifierOrKeywordLoop(_, _)
getIdentifierOrKeywordLoop(s, result) ==
    IF s.currentChar # null /\ TestLetter(s.currentChar)
    THEN getIdentifierOrKeywordLoop(advance(s), result \o StringOf(s.currentChar))
    ELSE [s |-> s, text |-> result]

getIdentifierOrKeyword(s) ==
    LET r == getIdentifierOrKeywordLoop(s, <<>>)
    IN  [s |-> r.s, ok |-> TRUE,
         token |-> IF r.text \in Keywords
                   THEN Token("KEYWORD", r.text)
                   ELSE Token("IDENTIFIER", r.text),
         msg |-> ""]

\* The `operators` table of getOperator.
operators(c) ==
    CASE c = "+" -> "PLUS"
      [] c = "-" -> "MINUS"
      [] c = "*" -> "MULTIPLY"
      [] c = "/" -> "DIVIDE"
      [] c = "^" -> "POWER"

getOperator(s) ==
    LET operatorValue == s.currentChar
    IN  [s |-> advance(s), ok |-> TRUE,
         token |-> Token(operators(operatorValue), <<operatorValue>>), msg |-> ""]

getComparison(s) ==
    LET first == s.currentChar
        two == peek(s) = "=" \/ (first = "!" /\ peek(s) = "=")
        s1 == IF two THEN advance(s) ELSE s
        result == IF two THEN <<first>> \o StringOf(s1.currentChar) ELSE <<first>>
    IN  [s |-> advance(s1), ok |-> TRUE, token |-> Token("COMPARISON", result),
         msg |-> ""]

RECURSIVE getSubscriptLoop(_, _)
getSubscriptLoop(s, result) ==
    IF s.currentChar # null /\ TestAlnum(s.currentChar)
    THEN getSubscriptLoop(advance(s), result \o StringOf(s.currentChar))
    ELSE [s |-> s, text |-> result]

getSubscript(s) ==
    LET r == getSubscriptLoop(advance(s), <<>>)
    IN  [s |-> r.s, ok |-> TRUE, token |-> Token("SUBSCRIPT", r.text), msg |-> ""]

\* Only the fat arrow is recognized.
IsArrowTextFatOnly(result) == result = <<"=", ">">>

\* result === '=>' || result === '->'
IsArrowText(result) == result = <<"=", ">">> \/ result = <<"-", ">">>

\* getArrow returns null when the two characters are not `=>` or `->`.
getArrow(s) ==
    LET first == s.currentChar
        two == peek(s) = ">" \/ (first = "-" /\ peek(s) = ">")
        s1 == IF two THEN advance(s) ELSE s
        result == IF two THEN <<first>> \o StringOf(s1.currentChar) ELSE <<first>>
    IN  [s |-> advance(s1), ok |-> TRUE,
         token |-> IF IsArrowText(result)
                   THEN Token("ARROW", result)
                   ELSE NullToken,
         msg |-> ""]

(***************************************************************************)
(* Indentation.                                                            *)
(***************************************************************************)
spacePerIndent == 4

Top(stack) == stack[Len(stack)]

Pop(stack) == SubSeq(stack, 1, Len(stack) - 1)

RECURSIVE countSpaces(_, _)
countSpaces(s, numSpaces) ==
    IF s.currentChar = " "
    THEN countSpaces(advance(s), numSpaces + 1)
    ELSE [s |-> s, numSpaces |-> numSpaces]

\* currentIndentLevel >= lastIndentLevel
DeeperOrEqual(currentIndentLevel, lastIndentLevel) ==
    ~NumLess(currentIndentLevel, lastIndentLevel)

\* currentIndentLevel > lastIndentLevel
DeeperThan(currentIndentLevel, lastIndentLevel) ==
    NumLess(lastIndentLevel, currentIndentLevel)

\* The DEDENT token carries the level that was popped.
DedentTokenPopped(stack) == Token("DEDENT", Top(stack))

\* handleIndentation, after indentStack.pop() of `stack`: the DEDENT token
\* carries the top of the stack that is left.
DedentToken(stack) == Token("DEDENT", Top(Pop(stack)))

\* The levels above currentIndentLevel are popped, and a level that is then
\* not on top of the stack is pushed.
RECURSIVE dedentLoopThenPush(_, _, _)
dedentLoopThenPush(currentIndentLevel, stack, toks) ==
    IF NumLess(currentIndentLevel, Top(stack))
    THEN dedentLoopThenPush(currentIndentLevel, Pop(stack),
                            Append(toks, Token("DEDENT", Top(Pop(stack)))))
    ELSE IF NumLess(Top(stack), currentIndentLevel)
    THEN [indentStack |-> Append(stack, currentIndentLevel), tokens |-> toks]
    ELSE [indentStack |-> stack, tokens |-> toks]

RECURSIVE dedentLoop(_, _, _)
dedentLoop(currentIndentLevel, stack, toks) ==
    IF NumLess(currentIndentLevel, Top(stack))
    THEN dedentLoop(currentIndentLevel, Pop(stack), Append(toks, DedentToken(stack)))
    ELSE [indentStack |-> stack, tokens |-> toks]

handleIndentation(s, stack) ==
    LET r == countSpaces(s, 0)
        currentIndentLevel == Divide(r.numSpaces, spacePerIndent)
        lastIndentLevel == Top(stack)
    IN  IF DeeperThan(currentIndentLevel, lastIndentLevel)
        THEN [s |-> r.s, indentStack |-> Append(stack, currentIndentLevel),
              tokens |-> <<Token("INDENT", currentIndentLevel)>>]
        ELSE IF NumLess(currentIndentLevel, lastIndentLevel)
        THEN LET d == dedentLoop(currentIndentLevel, stack, <<>>)
             IN  [s |-> r.s, indentStack |-> d.indentStack, tokens |-> d.tokens]
        ELSE [s |-> r.s, indentStack |-> stack, tokens |-> <<>>]

\* The loop stops one level early.
MoreThanOneToClose(stack) == Len(stack) > 2

\* The loop condition of closeIndents: indentStack.length > 1
MoreToClose(stack) == Len(stack) > 1

\* The DEDENT token carries the level that was popped.
CloseTokenPopped(stack) == Token("DEDENT", Top(stack))

\* closeIndents, after indentStack.pop() of `stack`.
CloseToken(stack) == Token("DEDENT", Top(Pop(stack)))

RECURSIVE closeIndents(_, _)
closeIndents(stack, toks) ==
    IF MoreToClose(stack)
    THEN closeIndents(Pop(stack), Append(toks, CloseToken(stack)))
    ELSE [indentStack |-> stack, tokens |-> toks]

(***************************************************************************)
(* Inputs.  The families of source texts:                                 *)
(*   - every text of at most MaxLen characters over Alphabet, which holds  *)
(*     a character for every branch of the dispatch loop;                  *)
(*   - texts of quotes, letters and newlines (strings);                    *)
(*   - texts of slashes, stars, letters and newlines (comments);           *)
(*   - texts of operator characters and letters;                           *)
(*   - texts of the letters of `if`, a capital, a digit and an underscore, *)
(*     and every reserved word, alone and followed by one character;       *)
(*   - a few longer example texts;                                         *)
(*   - texts of lines, each indented by some number of spaces;             *)
(*   - the ramps: lines indented by 4, 8, ..., 4L and back to 0 spaces.    *)
(***************************************************************************)
Alphabet ==
    {"\n", " ", "\t", "/", "*", "\"", "'", "0", "1", "a", "(", ")", ",",
     "=", "-", ">", "+", "^", "<", "!", "_", "%"}

StringAlphabet == {"\"", "'", "a", "\n"}

CommentAlphabet == {"/", "*", "a", "\n"}

OperatorAlphabet == {"=", "-", ">", "<", "!", "a"}

KeywordAlphabet == {"i", "f", "I", "1", "_"}

SeqsUpTo(S, n) == UNION {[1..k -> S] : k \in 0..n}

Spaces(n) == [i \in 1..n |-> " "]

\* The lines after the first: line i is "\n", indents[i] spaces, then "a".
RECURSIVE IndentedLines(_)
IndentedLines(indents) ==
    IF indents = <<>> THEN <<>>
    ELSE <<"\n">> \o Spaces(Head(indents)) \o <<"a">> \o IndentedLines(Tail(indents))

IndentedText(indents) == <<"a">> \o IndentedLines(indents)

\* 4, 8, ..., 4L, 4(L-1), ..., 4, 0
RampIndents(L) ==
    [i \in 1..(2 * L) |-> IF i <= L THEN 4 * i ELSE 4 * (2 * L - i)]

IndentInputs == {IndentedText(ind) : ind \in SeqsUpTo(0..MaxSpaces, MaxLines)}

RampInputs == {IndentedText(RampIndents(L)) : L \in 1..MaxLevel}

\* Every reserved word, alone and followed by a letter, digit, underscore
\* or space.
KeywordTexts ==
    Keywords \cup {k \o <<c>> : k \in Keywords, c \in {"s", "1", "_", " "}}

\* `a => b`, `x <= y`, a line comment before an indented line, a string and
\* a block comment that span an indented line.
Examples ==
    {<<"a", " ", "=", ">", " ", "b">>,
     <<"x", " ", "<", "=", " ", "y">>,
     <<"/", "/", "c", "\n", " ", " ", " ", " ", "a">>,
     <<"a", "\n", " ", " ", "/", "/", "\n", " ", " ", "a">>,
     <<"'", "a", "\n", " ", " ", "b", "'", "\n", "c">>,
     <<"/", "*", "a", "\n", " ", " ", "b", "*", "/", "\n", "c">>}

Inputs ==
    SeqsUpTo(Alphabet, MaxLen)
        \cup SeqsUpTo(StringAlphabet, MaxStringLen)
        \cup SeqsUpTo(CommentAlphabet, MaxCommentLen)
        \cup SeqsUpTo(OperatorAlphabet, MaxOperatorLen)
        \cup SeqsUpTo(KeywordAlphabet, MaxKeywordLen)
        \cup KeywordTexts
        \cup Examples
        \cup IndentInputs
        \cup RampInputs

(***************************************************************************)
(* The dispatch of tokenize(): the first branch of the if-else chain whose *)
(* condition holds for current character c and lookahead p.                *)
(***************************************************************************)
\* The lookahead is not consulted.
StartsMultiLineCommentNoPeek(c, p) == c = "/"

StartsMultiLineComment(c, p) == c = "/" /\ p = "*"

StartsString(c) == c = "\"" \/ c = "'"

Branch(c, p) ==
    IF c = "\n" THEN "newline"
    ELSE IF c = " " \/ c = "\t" THEN "whitespace"
    ELSE IF c = "/" /\ p = "/" THEN "singleLineComment"
    ELSE IF StartsMultiLineComment(c, p) THEN "multiLineComment"
    ELSE IF StartsString(c) THEN "string"
    ELSE IF TestDigit(c) THEN "integer"
    ELSE IF TestLetter(c) THEN "identifier"
    ELSE IF c = "(" THEN "lparen"
    ELSE IF c = ")" THEN "rparen"
    ELSE IF c = "," THEN "comma"
    ELSE IF c = "=" \/ c = "-" THEN "arrow"
    ELSE IF c \in {"+", "-", "*", "/", "^"} THEN "operator"
    ELSE IF c \in {"=", "!", "<"} THEN "comparison"
    ELSE IF c = "_" THEN "subscript"
    ELSE "other"

cur == Cursor(position, currentChar)

\* The loop of tokenize() is at its head, with a character to dispatch on.
At(branch) ==
    /\ outcome.status = "running"
    /\ currentChar # null
    /\ Branch(currentChar, peek(cur)) = branch

\* tokens.push(r.token) after a sub-recognizer that returned.
Push(r) ==
    /\ position' = r.s.position
    /\ currentChar' = r.s.currentChar
    /\ tokens' = Append(tokens, r.token)
    /\ UNCHANGED <<input, indentStack, outcome, previous>>

\* A sub-recognizer that may throw: the error leaves tokenize() at once.
PushOrThrow(r) ==
    /\ position' = r.s.position
    /\ currentChar' = r.s.currentChar
    /\ IF r.ok
       THEN tokens' = Append(tokens, r.token) /\ outcome' = outcome
       ELSE tokens' = <<>> /\ outcome' = error(r.s.position, r.msg)
    /\ UNCHANGED <<input, indentStack, previous>>

\* A branch that pushes a one-character token, or nothing, and advances.
Skip(toks) ==
    /\ position' = advance(cur).position
    /\ currentChar' = advance(cur).currentChar
    /\ tokens' = tokens \o toks
    /\ UNCHANGED <<input, indentStack, outcome, previous>>

(***************************************************************************)
(* Actions.                                                                *)
(***************************************************************************)
Init ==
    /\ input \in Inputs
    /\ position = Lexer(input).position
    /\ currentChar = Lexer(input).currentChar
    /\ indentStack = Lexer(input).indentStack
    /\ tokens = <<>>
    /\ outcome = Constructed
    /\ previous = Constructed

\* lexer.tokenize() is called: `let tokens = []`.
Tokenize ==
    /\ outcome.status = "constructed"
    /\ tokens' = FreshTokens
    /\ outcome' = Running
    /\ UNCHANGED <<input, position, currentChar, indentStack, previous>>

Newline ==
    /\ At("newline")
    /\ LET r == handleIndentation(advance(cur), indentStack)
       IN  /\ position' = r.s.position
           /\ currentChar' = r.s.currentChar
           /\ indentStack' = r.indentStack
           /\ tokens' = Append(tokens, Token("NEWLINE", <<"\n">>)) \o r.tokens
    /\ UNCHANGED <<input, outcome, previous>>

Whitespace == At("whitespace") /\ Skip(<<>>)

SingleLineComment == At("singleLineComment") /\ Push(getSingleLineComment(cur))

MultiLineComment == At("multiLineComment") /\ PushOrThrow(getMultiLineComment(cur))

String == At("string") /\ PushOrThrow(getString(cur))

Integer == At("integer") /\ Push(getInteger(cur))

IdentifierOrKeyword == At("identifier") /\ Push(getIdentifierOrKeyword(cur))

LParen == At("lparen") /\ Skip(<<Token("LPAREN", <<"(">>)>>)

RParen == At("rparen") /\ Skip(<<Token("RPAREN", <<")">>)>>)

Comma == At("comma") /\ Skip(<<Token("COMMA", <<",">>)>>)

Arrow == At("arrow") /\ Push(getArrow(cur))

Operator == At("operator") /\ Push(getOperator(cur))

Comparison == At("comparison") /\ Push(getComparison(cur))

Subscript == At("subscript") /\ Push(getSubscript(cur))

Other == At("other") /\ Skip(<<>>)

\* The loop ends: tokens.concat(this.closeIndents()) is returned.
Return ==
    /\ outcome.status = "running"
    /\ currentChar = null
    /\ LET r == closeIndents(indentStack, <<>>)
       IN  /\ indentStack' = r.indentStack
           /\ tokens' = tokens \o r.tokens
           /\ outcome' = Returned(tokens \o r.tokens)
    /\ UNCHANGED <<input, position, currentChar, previous>>

\* A second, fresh Lexer is constructed on the same input, once the first
\* one's tokenize() has returned or thrown.
NewLexer ==
    /\ outcome.status \in {"returned", "thrown"}
    /\ previous.status = "constructed"
    /\ previous' = outcome
    /\ position' = Lexer(input).position
    /\ currentChar' = Lexer(input).currentChar
    /\ indentStack' = Lexer(input).indentStack
    /\ outcome' = Constructed
    /\ UNCHANGED <<input, tokens>>

Next ==
    \/ Tokenize
    \/ Newline
    \/ Whitespace
    \/ SingleLineComment
    \/ MultiLineComment
    \/ String
    \/ Integer
    \/ IdentifierOrKeyword
    \/ LParen
    \/ RParen
    \/ Comma
    \/ Arrow
    \/ Operator
    \/ Comparison
    \/ Subscript
    \/ Other
    \/ Return

\* One Lexer, constructed and run once.
Spec == Init /\ [][Next]_vars

NextTwice == Next \/ NewLexer

\* Two Lexers, one after the other, on the same input.
SpecTwice == Init /\ [][NextTwice]_vars

\* lexer.advance() is called from outside tokenize(), on a cursor that is at
\* or past the end of the input.
AdvanceCall ==
    /\ outcome.status # "running"
    /\ position >= Len(input)
    /\ position < Len(input) + MaxPastEnd
    /\ position' = advance(cur).position
    /\ currentChar' = advance(cur).currentChar
    /\ UNCHANGED <<input, indentStack, tokens, outcome, previous>>

NextScanner == Next \/ AdvanceCall

\* One Lexer, whose advance() is also called directly at the end.
SpecScanner == Init /\ [][NextScanner]_vars

TypeOK ==
    /\ position \in 0..(Len(input) + 1)
    /\ outcome.status \in {"constructed", "running", "returned", "thrown"}
    /\ Len(indentStack) >= 1

(***************************************************************************)
(* Vocabulary of the properties.                                           *)
(***************************************************************************)
Kinds ==
    {"NEWLINE", "INDENT", "DEDENT", "COMMENT", "STRING", "INTEGER",
     "IDENTIFIER", "KEYWORD", "LPAREN", "RPAREN", "COMMA", "ARROW", "PLUS",
     "MINUS", "MULTIPLY", "DIVIDE", "POWER", "COMPARISON", "SUBSCRIPT"}

\* The character at 0-based index i of the input.
CharAt(i) == input[i + 1]

\* The input text from 0-based index a up to, not including, index b.
Slice(a, b) == SubSeq(input, a + 1, b)

Min(S) == CHOOSE x \in S : \A y \in S : x <= y

HasQuote == \E i \in 1..Len(input) : input[i] \in {"\"", "'"}

HasSlashStar ==
    \E i \in 1..(Len(input) - 1) : input[i] = "/" /\ input[i + 1] = "*"

\* The dispatch loop is at its head on character c.
Dispatching == outcome.status = "running" /\ currentChar # null

SameToken(a, b) == a.type = b.type /\ a.value = b.value

SameTokens(a, b) ==
    /\ Len(a) = Len(b)
    /\ \A i \in 1..Len(a) : SameToken(a[i], b[i])

SameOutcome(a, b) ==
    /\ a.status = b.status
    /\ SameTokens(a.tokens, b.tokens)
    /\ a.position = b.position
    /\ a.msg = b.msg

(***************************************************************************)
(* C1: on an input with no double quote, no single quote and no slash-star *)
(* tokenize() never throws: every run on it is still running or has        *)
(* returned its token sequence.                                            *)
(***************************************************************************)
C1_NeverFails ==
    (~HasQuote /\ ~HasSlashStar) => outcome.status # "thrown"

\* A quote-free input holding a slash and a star was tokenized to the end.
C1_Witness ==
    /\ ~HasQuote /\ ~HasSlashStar
    /\ \E i \in 1..Len(input) : input[i] = "/"
    /\ \E i \in 1..Len(input) : input[i] = "*"
    /\ outcome.status = "returned"
    /\ Len(outcome.tokens) >= 2

(***************************************************************************)
(* C2: every element of the token sequence is a token whose kind is one of *)
(* the 19 kinds, and a `=` or `-` that is not followed by `>` adds no      *)
(* element to the sequence.                                                *)
(***************************************************************************)
C2_KindsClosed ==
    [][/\ \A i \in 1..Len(tokens') : tokens'[i].type \in Kinds
       /\ (Dispatching /\ currentChar \in {"=", "-"} /\ peek(cur) # ">")
              => tokens' = tokens]_vars

(***************************************************************************)
(* C3: two fresh Lexer instances on the same input end the same way: the   *)
(* same token sequence (length, kind and value at every index) or the same *)
(* error.                                                                  *)
(***************************************************************************)
C3_SameOutcome ==
    (outcome.status \in {"returned", "thrown"} /\ previous.status # "constructed")
        => SameOutcome(outcome, previous)

\* Both instances returned, with at least two tokens.
C3_Witness ==
    /\ previous.status = "returned"
    /\ outcome.status = "returned"
    /\ Len(outcome.tokens) >= 2

(***************************************************************************)
(* C4: at an opening quote, if no quote of the same kind follows, the run  *)
(* throws the unterminated-string error and returns no sequence; otherwise *)
(* one STRING token is pushed whose value is the text strictly between the *)
(* opening quote and the first following quote of the same kind, and the   *)
(* cursor is left after that quote.                                        *)
(***************************************************************************)
ClosingQuotes ==
    {j \in (position + 1)..(Len(input) - 1) : CharAt(j) = currentChar}

C4_String ==
    [][(Dispatching /\ currentChar \in {"\"", "'"}) =>
          IF ClosingQuotes = {}
          THEN /\ outcome'.status = "thrown"
               /\ outcome'.msg = UnterminatedString
               /\ outcome'.tokens = <<>>
          ELSE /\ outcome' = outcome
               /\ tokens' = Append(tokens,
                      Token("STRING", Slice(position + 1, Min(ClosingQuotes))))
               /\ position' = Min(ClosingQuotes) + 1]_vars

\* A string that holds a quote of the other kind was returned as one token.
C4_Witness ==
    /\ outcome.status = "returned"
    /\ \E i \in 1..Len(outcome.tokens) :
          /\ outcome.tokens[i].type = "STRING"
          /\ \E k \in 1..Len(outcome.tokens[i].value) :
                outcome.tokens[i].value[k] \in {"\"", "'"}

(***************************************************************************)
(* C5: at a slash-star, if no star-slash follows the two characters, the   *)
(* run throws the unterminated-comment error and returns no sequence;      *)
(* otherwise one COMMENT token is pushed whose value is the text between   *)
(* the delimiters, and the cursor is left on the character after the first *)
(* star-slash.                                                             *)
(***************************************************************************)
CommentEnds ==
    {j \in (position + 2)..(Len(input) - 2) :
        CharAt(j) = "*" /\ CharAt(j + 1) = "/"}

C5_Comment ==
    [][(Dispatching /\ currentChar = "/" /\ peek(cur) = "*") =>
          IF CommentEnds = {}
          THEN /\ outcome'.status = "thrown"
               /\ outcome'.msg = UnterminatedComment
               /\ outcome'.tokens = <<>>
          ELSE /\ outcome' = outcome
               /\ tokens' = Append(tokens,
                      Token("COMMENT", Slice(position + 2, Min(CommentEnds))))
               /\ position' = Min(CommentEnds) + 2
               /\ currentChar' = IF position' < Len(input)
                                 THEN CharAt(position') ELSE null]_vars

\* A comment with text in it was pushed and the scan went on to a next token.
C5_Witness ==
    /\ Len(input) >= 2 /\ input[1] = "/" /\ input[2] = "*"
    /\ outcome.status = "returned"
    /\ Len(outcome.tokens) >= 2
    /\ outcome.tokens[1].type = "COMMENT"
    /\ Len(outcome.tokens[1].value) >= 1

(***************************************************************************)
(* C6: for the input whose lines after the first are indented by 4, 8,     *)
(* ..., 4L and then 4(L-1), ..., 4, 0 spaces, the INDENT and DEDENT tokens *)
(* of the returned sequence are, in order, INDENT 1, ..., INDENT L,        *)
(* DEDENT L-1, ..., DEDENT 0: one after the NEWLINE of each line.          *)
(***************************************************************************)
IsIndentOrDedent(t) == t.type \in {"INDENT", "DEDENT"}

RampTokens(L) ==
    [i \in 1..(2 * L) |->
        IF i <= L THEN Token("INDENT", Number(i))
        ELSE Token("DEDENT", Number(2 * L - i))]

C6_Ramp ==
    \A L \in 1..MaxLevel :
        (input = IndentedText(RampIndents(L)) /\ outcome.status = "returned") =>
            /\ SelectSeq(outcome.tokens, IsIndentOrDedent) = RampTokens(L)
            /\ \A i \in 1..Len(outcome.tokens) :
                  (i > 1 /\ outcome.tokens[i - 1].type = "NEWLINE")
                      <=> IsIndentOrDedent(outcome.tokens[i])

\* The ramp to level 2 and back was tokenized.
C6_Witness ==
    /\ MaxLevel >= 2
    /\ input = IndentedText(RampIndents(2))
    /\ outcome.status = "returned"
    /\ Len(SelectSeq(outcome.tokens, IsIndentOrDedent)) = 4

(***************************************************************************)
(* C7: while tokenize() runs, the indentation stack is not empty, its      *)
(* bottom element is 0, and it increases strictly from bottom to top.      *)
(***************************************************************************)
C7_StackShape ==
    outcome.status = "running" =>
        /\ Len(indentStack) >= 1
        /\ indentStack[1] = Number(0)
        /\ \A i \in 1..(Len(indentStack) - 1) :
              NumLess(indentStack[i], indentStack[i + 1])

\* Three levels are open, the middle one fractional, and the run goes on.
C7_Witness ==
    /\ outcome.status = "running"
    /\ Len(indentStack) = 3
    /\ indentStack[2].den # 1
    /\ currentChar # null

(***************************************************************************)
(* C8: when the loop ends with a stack of k+1 levels, the returned         *)
(* sequence is the tokens so far followed by exactly k DEDENT tokens, the  *)
(* j-th carrying the level that is on top after j pops (the last one 0),   *)
(* and the stack is [0] on return.                                         *)
(***************************************************************************)
C8_Drain ==
    [][(outcome.status = "running" /\ currentChar = null) =>
          LET k == Len(indentStack) - 1
              n == Len(tokens)
          IN  /\ outcome'.status = "returned"
              /\ Len(outcome'.tokens) = n + k
              /\ SubSeq(outcome'.tokens, 1, n) = tokens
              /\ \A j \in 1..k :
                    outcome'.tokens[n + j] = Token("DEDENT", indentStack[k + 1 - j])
              /\ k > 0 => outcome'.tokens[n + k] = Token("DEDENT", Number(0))
              /\ indentStack' = <<Number(0)>>]_vars

\* The input ended two levels deep: the sequence ends DEDENT 1/4, DEDENT 0.
C8_Witness ==
    /\ outcome.status = "returned"
    /\ Len(outcome.tokens) >= 2
    /\ outcome.tokens[Len(outcome.tokens)] = Token("DEDENT", Number(0))
    /\ outcome.tokens[Len(outcome.tokens) - 1] = Token("DEDENT", Divide(1, 4))

(***************************************************************************)
(* C9: at a `+`, `-`, `*`, `/` or `^` that does not begin `//`, `/*` or    *)
(* `->`, one token of the kind PLUS, MINUS, MULTIPLY, DIVIDE or POWER is   *)
(* pushed, whose value is the character, and the cursor moves by one.      *)
(***************************************************************************)
OperatorKind(c) ==
    CASE c = "+" -> "PLUS"
      [] c = "-" -> "MINUS"
      [] c = "*" -> "MULTIPLY"
      [] c = "/" -> "DIVIDE"
      [] c = "^" -> "POWER"

C9_Operators ==
    [][(/\ Dispatching
        /\ currentChar \in {"+", "-", "*", "/", "^"}
        /\ ~(currentChar = "/" /\ peek(cur) \in {"/", "*"})
        /\ ~(currentChar = "-" /\ peek(cur) = ">"))
          => /\ tokens' = Append(tokens,
                    Token(OperatorKind(currentChar), <<currentChar>>))
             /\ position' = position + 1]_vars

(***************************************************************************)
(* C10: at `<=`, `>=` or `!=` one COMPARISON token with that two-character *)
(* value is pushed, and at an `=` that is not followed by `>` one          *)
(* COMPARISON token with value `=` is pushed.                              *)
(***************************************************************************)
C10_Comparisons ==
    [][/\ (Dispatching /\ currentChar \in {"<", ">", "!"} /\ peek(cur) = "=")
              => tokens' = Append(tokens, Token("COMPARISON", <<currentChar, "=">>))
       /\ (Dispatching /\ currentChar = "=" /\ peek(cur) # ">")
              => tokens' = Append(tokens, Token("COMPARISON", <<"=">>))]_vars

(***************************************************************************)
(* C11: every COMPARISON token of the token sequence has one of the values *)
(* `=`, `<=`, `>=`, `!=`, on every input.                                  *)
(***************************************************************************)
ComparisonValues == {<<"=">>, <<"<", "=">>, <<">", "=">>, <<"!", "=">>}

C11_ComparisonValues ==
    \A i \in 1..Len(tokens) :
        tokens[i].type = "COMPARISON" => tokens[i].value \in ComparisonValues

(***************************************************************************)
(* C12: at a `-` or `=` whose next character is `>`, exactly the two       *)
(* characters are consumed and exactly one ARROW token is pushed, with the *)
(* value `->` or `=>`; `a => b` gives IDENTIFIER a, ARROW =>,              *)
(* IDENTIFIER b.                                                           *)
(***************************************************************************)
C12_Arrow ==
    /\ [][(Dispatching /\ currentChar \in {"-", "="} /\ peek(cur) = ">") =>
             /\ tokens' = Append(tokens, Token("ARROW", <<currentChar, ">">>))
             /\ position' = position + 2
             /\ outcome' = outcome]_vars
    /\ []((input = <<"a", " ", "=", ">", " ", "b">> /\ outcome.status = "returned")
             => outcome.tokens = <<Token("IDENTIFIER", <<"a">>),
                                   Token("ARROW", <<"=", ">">>),
                                   Token("IDENTIFIER", <<"b">>)>>)

\* A thin arrow between two identifiers was tokenized.
C12_Witness ==
    /\ outcome.status = "returned"
    /\ Len(outcome.tokens) = 3
    /\ outcome.tokens[1].type = "IDENTIFIER"
    /\ outcome.tokens[2] = Token("ARROW", <<"-", ">">>)
    /\ outcome.tokens[3].type = "IDENTIFIER"

(***************************************************************************)
(* C13 (as claimed): once the cursor is at or past the end of the input    *)
(* and the current character is the end sentinel, no step changes the      *)
(* position or the current character: advance() is a no-op there.          *)
(***************************************************************************)
C13_NoOp ==
    [][(position >= Len(input) /\ currentChar = null) =>
          (position' = position /\ currentChar' = currentChar)]_vars

(***************************************************************************)
(* C13 (amended): advance() on a cursor at or past the end of the input    *)
(* never fails, increases the position by exactly one, and leaves the      *)
(* current character null.  (The steps at or past the end that leave the   *)
(* outcome unchanged are the calls of advance().)                          *)
(***************************************************************************)
C13_Sentinel ==
    [][(position >= Len(input) /\ outcome' = outcome) =>
          (position' = position + 1 /\ currentChar' = null)]_vars

\* advance() was called twice on a cursor at the end of a non-empty input.
C13_Witness ==
    /\ Len(input) > 0
    /\ position = Len(input) + 2
    /\ currentChar = null

(***************************************************************************)
(* C14: at an ASCII letter, the maximal run of ASCII letters is consumed   *)
(* (it stops at the first digit, underscore or other character) and one    *)
(* token is pushed whose value is the run: KEYWORD if the run is one of    *)
(* function, if, else, then, while, break, continue, return, and           *)
(* IDENTIFIER otherwise.                                                   *)
(***************************************************************************)
ReservedWords ==
    {<<"f", "u", "n", "c", "t", "i", "o", "n">>, <<"i", "f">>,
     <<"e", "l", "s", "e">>, <<"t", "h", "e", "n">>,
     <<"w", "h", "i", "l", "e">>, <<"b", "r", "e", "a", "k">>,
     <<"c", "o", "n", "t", "i", "n", "u", "e">>,
     <<"r", "e", "t", "u", "r", "n">>}

\* The 0-based index of the first character at or after the cursor that is
\* no letter, or the length of the input.
LetterRunEnd ==
    Min({j \in position..Len(input) :
            j = Len(input) \/ CharAt(j) \notin Letters})

C14_Identifier ==
    [][(Dispatching /\ currentChar \in Letters) =>
          LET run == Slice(position, LetterRunEnd)
          IN  /\ tokens' = Append(tokens,
                     Token(IF run \in ReservedWords THEN "KEYWORD"
                           ELSE "IDENTIFIER", run))
              /\ position' = LetterRunEnd
              /\ outcome' = outcome]_vars

\* The keyword `if` was recognized before a digit or an underscore, and on
\* another input `If` or `iff` would not be: here the run stopped early.
C14_Witness ==
    /\ outcome.status = "returned"
    /\ Len(outcome.tokens) = 2
    /\ outcome.tokens[1] = Token("KEYWORD", <<"i", "f">>)
    /\ outcome.tokens[2].type \in {"INTEGER", "SUBSCRIPT"}

(***************************************************************************)
(* C15: at `//` one COMMENT token is pushed whose value is the text after  *)
(* the two slashes up to, not including, the next newline or the end of    *)
(* the input; the cursor is left on that newline, so the next step pushes  *)
(* NEWLINE for it and consumes the leading spaces of the following line.   *)
(***************************************************************************)
\* The 0-based index of the first newline at or after index p, or the length
\* of the input.
LineEnd(p) ==
    Min({j \in p..Len(input) : j = Len(input) \/ CharAt(j) = "\n"})

\* The 0-based index of the first character at or after index p that is no
\* space, or the length of the input.
SpaceRunEnd(p) ==
    Min({j \in p..Len(input) : j = Len(input) \/ CharAt(j) # " "})

C15_LineComment ==
    /\ [][(Dispatching /\ currentChar = "/" /\ peek(cur) = "/") =>
             LET e == LineEnd(position + 2)
             IN  /\ tokens' = Append(tokens, Token("COMMENT", Slice(position + 2, e)))
                 /\ position' = e
                 /\ currentChar' = (IF e < Len(input) THEN "\n" ELSE null)
                 /\ indentStack' = indentStack
                 /\ outcome' = outcome]_vars
    /\ [][(Dispatching /\ currentChar = "\n") =>
             /\ Len(tokens') > Len(tokens)
             /\ SubSeq(tokens', 1, Len(tokens)) = tokens
             /\ tokens'[Len(tokens) + 1] = Token("NEWLINE", <<"\n">>)
             /\ position' = SpaceRunEnd(position + 1)]_vars

\* A comment with text, then the NEWLINE of the newline that ended it, then
\* the INDENT of the indented line after it.
C15_Witness ==
    /\ outcome.status = "returned"
    /\ \E i \in 1..(Len(outcome.tokens) - 2) :
          /\ outcome.tokens[i].type = "COMMENT"
          /\ Len(outcome.tokens[i].value) >= 1
          /\ outcome.tokens[i + 1].type = "NEWLINE"
          /\ outcome.tokens[i + 2].type = "INDENT"

(***************************************************************************)
(* C16: after a dispatch step at a newline, which runs handleIndentation   *)
(* on the following line, the top of the indentation stack is at most      *)
(* that line's level (its leading spaces / 4).  It equals the level        *)
(* exactly when the level was above the old top, and so was pushed, or was *)
(* already on the stack; after a dedent to a level that is not on the      *)
(* stack the top is below the level.  A line whose level equals the top    *)
(* adds NEWLINE alone and leaves the stack as it is; a line whose level is *)
(* above the top adds NEWLINE and INDENT.                                  *)
(***************************************************************************)
\* The level of the line after the newline under the cursor.
NextLineLevel ==
    Divide(SpaceRunEnd(position + 1) - (position + 1), spacePerIndent)

AtNewline == Dispatching /\ currentChar = "\n"

OnStack(level) == \E i \in 1..Len(indentStack) : indentStack[i] = level

C16_TopAtMostLevel ==
    [][AtNewline =>
          /\ ~NumLess(NextLineLevel, Top(indentStack'))
          /\ (Top(indentStack') = NextLineLevel)
                <=> (NumLess(Top(indentStack), NextLineLevel) \/ OnStack(NextLineLevel))
          /\ (Top(indentStack) = NextLineLevel) =>
                /\ tokens' = Append(tokens, Token("NEWLINE", <<"\n">>))
                /\ indentStack' = indentStack
          /\ NumLess(Top(indentStack), NextLineLevel) =>
                /\ tokens' = tokens \o <<Token("NEWLINE", <<"\n">>),
                                         Token("INDENT", NextLineLevel)>>
                /\ indentStack' = Append(indentStack, NextLineLevel)]_vars

\* The statement that the top always equals the line's level.  A following
\* line of the same level adds no INDENT and no DEDENT exactly when the top
\* equals that level, so this is the whole of the statement.
C16_TopIsLevel ==
    [][AtNewline => Top(indentStack') = NextLineLevel]_vars

\* handleIndentation has just popped down to a level below the line's level:
\* the cursor is behind the spaces after a newline, the last token is a
\* DEDENT and the top of the stack is less than the line's level.
C16_Witness ==
    /\ outcome.status = "running"
    /\ Len(tokens) > 0
    /\ tokens[Len(tokens)].type = "DEDENT"
    /\ \E p \in 0..(position - 1) :
          /\ CharAt(p) = "\n"
          /\ SpaceRunEnd(p + 1) = position
          /\ NumLess(Top(indentStack), Divide(position - (p + 1), spacePerIndent))

(***************************************************************************)
(* C17: between the steps of a tokenize() run, the number of INDENT tokens *)
(* pushed so far minus the number of DEDENT tokens pushed so far equals    *)
(* the length of the indentation stack minus 1, and a returned token       *)
(* sequence holds as many INDENT as DEDENT tokens.                         *)
(***************************************************************************)
IsIndent(t) == t.type = "INDENT"

IsDedent(t) == t.type = "DEDENT"

Indents(toks) == Len(SelectSeq(toks, IsIndent))

Dedents(toks) == Len(SelectSeq(toks, IsDedent))

C17_Balance ==
    /\ (outcome.status \in {"running", "returned"}) =>
          Indents(tokens) - Dedents(tokens) = Len(indentStack) - 1
    /\ (outcome.status = "returned") =>
          Indents(outcome.tokens) = Dedents(outcome.tokens)

\* Two levels were opened and closeIndents closed them at the end of input.
C17_Witness ==
    /\ outcome.status = "returned"
    /\ Indents(outcome.tokens) = 2
    /\ Len(outcome.tokens) > 2
    /\ outcome.tokens[Len(outcome.tokens)].type = "DEDENT"
    /\ outcome.tokens[Len(outcome.tokens) - 1].type = "DEDENT"

(***************************************************************************)
(* C18: a terminated string or multi-line comment is passed in one step,   *)
(* the newlines in it included: the step pushes one STRING or COMMENT      *)
(* token and leaves the indentation stack as it is.  Only a step at a      *)
(* newline pushes NEWLINE, INDENT or DEDENT or changes the stack during    *)
(* the dispatch loop, and every INDENT token comes directly after a        *)
(* NEWLINE token.                                                          *)
(***************************************************************************)
IsLineToken(t) == t.type \in {"NEWLINE", "INDENT", "DEDENT"}

C18_NewlinesInside ==
    /\ [][(Dispatching /\ StartsString(currentChar) /\ ClosingQuotes # {}) =>
             /\ position' = Min(ClosingQuotes) + 1
             /\ Len(tokens') = Len(tokens) + 1
             /\ SubSeq(tokens', 1, Len(tokens)) = tokens
             /\ tokens'[Len(tokens')].type = "STRING"
             /\ indentStack' = indentStack]_vars
    /\ [][(Dispatching /\ StartsMultiLineComment(currentChar, peek(cur))
                       /\ CommentEnds # {}) =>
             /\ position' = Min(CommentEnds) + 2
             /\ Len(tokens') = Len(tokens) + 1
             /\ SubSeq(tokens', 1, Len(tokens)) = tokens
             /\ tokens'[Len(tokens')].type = "COMMENT"
             /\ indentStack' = indentStack]_vars
    /\ [][(Dispatching /\ currentChar # "\n") =>
             /\ indentStack' = indentStack
             /\ (outcome' = outcome) =>
                   /\ Len(tokens') >= Len(tokens)
                   /\ \A i \in (Len(tokens) + 1)..Len(tokens') :
                         ~IsLineToken(tokens'[i])]_vars
    /\ [](\A i \in 1..Len(tokens) :
             (tokens[i].type = "INDENT") =>
                 (i > 1 /\ tokens[i - 1].type = "NEWLINE"))

\* A string with a newline and an indented second line in it was returned
\* as one token, followed by the NEWLINE of the newline after it, and no
\* INDENT was pushed.
C18_Witness ==
    /\ outcome.status = "returned"
    /\ Indents(outcome.tokens) = 0
    /\ \E i \in 1..(Len(outcome.tokens) - 1) :
          /\ outcome.tokens[i].type = "STRING"
          /\ \E k \in 1..(Len(outcome.tokens[i].value) - 1) :
                /\ outcome.tokens[i].value[k] = "\n"
                /\ outcome.tokens[i].value[k + 1] = " "
          /\ outcome.tokens[i + 1].type = "NEWLINE"

(***************************************************************************)
(* C19: for the empty input the current character is the end sentinel      *)
(* (null) from construction on, no dispatch step is taken (no token is     *)
(* pushed and the cursor stays at 0), and tokenize() returns the empty     *)
(* token sequence.                                                         *)
(***************************************************************************)
C19_EmptyInput ==
    (input = <<>>) =>
        /\ currentChar = null
        /\ position = 0
        /\ tokens = <<>>
        /\ outcome.status # "thrown"
        /\ (outcome.status = "returned") => (outcome.tokens = <<>>)

(***************************************************************************)
(* C20: every step of the dispatch loop moves the cursor forward by at     *)
(* least one character, no step moves it backwards, a run that has not     *)
(* returned or thrown can always take a step, and when tokenize() has      *)
(* returned or thrown the cursor position is at most the input's length.   *)
(***************************************************************************)
Finished == outcome.status \in {"returned", "thrown"}

C20_Terminates ==
    /\ [][Dispatching => position' > position]_vars
    /\ [][position' >= position]_vars
    /\ [](Finished \/ ENABLED Next)
    /\ [](Finished => position <= Len(input))

====
